---- MODULE Spec2Model ----
(***************************************************************************)
(* Model of ni660x.application.CountingApp: the acquisition coordinator    *)
(* that owns a dictionary of counting channels and one gate generator.     *)
(*                                                                         *)
(* The coordinator's methods are translated from application.py.  The      *)
(* classes PulseCounter (counter.py) and PulseTimeGenerator (generator.py) *)
(* are modelled from the specification's sections 3, 4.1 and 4.2: a        *)
(* channel has an enabled flag, an append-only buffer and a readiness      *)
(* count, the generator a done flag and a number of pulses left.           *)
(*                                                                         *)
(* The XML-RPC server handles one request at a time, so the control        *)
(* operations never overlap each other; the hardware (sample arrival,      *)
(* gate pulses) runs concurrently with them.  get_samples_readies reads    *)
(* one channel per step so that samples may arrive between its reads.      *)
(***************************************************************************)
EXTENDS Integers, Sequences, FiniteSets, TLC

\* ------------------------------------------------------------------ bounds

\* The longest buffer the hardware fills in a run.
MaxSamples == 1

\* Largest sample count a start operation asks for: the argument `samples`,
\* which is the number of gate pulses of the run.
MaxCount == 2

\* Largest magnitude of a start or end index handed to get_channel_data.
MaxIndex == 6

\* ----------------------------------------------------------- configuration

\* The keys of self._channels in insertion (configuration) order.
ChannelOrder == <<"A", "B">>

Names == {ChannelOrder[i] : i \in 1..Len(ChannelOrder)}

\* A name that is not a key of self._channels.
Unconfigured == "X"

\* The gate generator, as a callee in the call log.
Timer == "timer"

Components == Names \cup {Timer}

\* The hardware call that raises during one control operation, if any.
\* The coordinator has no try/except, so only the first failure of a call
\* is ever observed: one failing component per operation is general.
NoFail == "nofail"

Faults == Components \cup {NoFail}

Errors == {"none", "ResourceError", "TypeError", "KeyError"}

VARIABLES
    enabled,          \* Channel.enabled, per channel
    armed,            \* the channel is started and not stopped
    data,             \* Channel.data: the buffer of the run
    sample_readies,   \* Channel.sample_readies
    timer_done,       \* PulseTimeGenerator.done
    timer_left,       \* gate pulses still to emit
    channels_started, \* self._channels_started
    pc,               \* "idle", or "readies" inside get_samples_readies
    idx,              \* get_samples_readies: position in _channels_started
    samples_readies,  \* get_samples_readies: its local list
    lastOp,           \* the step just taken: an operation, or "hardware"
    calls,            \* the component calls that operation made, in order
    raised,           \* the error it raised, or "none"
    result,           \* the value it returned
    repeated,         \* the step before was the same operation, returning
    promised,         \* largest get_samples_readies result of this run
    at_call,          \* sample_readies when get_samples_readies was called
    written           \* per channel, the flag last written (or the initial)

vars == <<enabled, armed, data, sample_readies, timer_done, timer_left,
          channels_started, pc, idx, samples_readies, lastOp, calls, raised,
          result, repeated, promised, at_call, written>>

flagVars == <<enabled, written>>
chanVars == <<armed, data, sample_readies>>
timerVars == <<timer_done, timer_left>>
readVars == <<pc, idx, samples_readies, at_call>>

NoReadies == [c \in Names |-> 0]

\* ----------------------------------------------------------------- helpers

Range(s) == {s[i] : i \in 1..Len(s)}

\* min(samples_readies), line 148.
SeqMin(s) == CHOOSE m \in Range(s) : \A x \in Range(s) : m <= x

SetMin(S) == CHOOSE m \in S : \A x \in S : m <= x

SeqsUpTo(S, n) == UNION {[1..k -> S] : k \in 0..n}

\* ------------------------------------------ the channel and the generator

\* The sample values the hardware may deliver.
SampleValues == {7}

\* The part of the state a control operation works on, with the log of the
\* component calls it makes and the error it ends with.
Machine == [armed |-> armed, data |-> data,
            sample_readies |-> sample_readies, timer_done |-> timer_done,
            timer_left |-> timer_left, started |-> channels_started,
            calls |-> << >>, raised |-> "none"]

\* The call `callee.method(...)` enters the log.
Called(m, method, callee) == [m EXCEPT !.calls = Append(@, <<method, callee>>)]

\* A hardware call that raises ends the operation: nothing after it runs.
Raise(m, err) == [m EXCEPT !.raised = err]

\* PulseCounter.start(samples): arms the channel for a new run and resets
\* its buffer and its readiness count.  The count armed for is not kept:
\* the hardware below delivers up to MaxSamples values in any run.
channel_start(m, c, samples) ==
    [m EXCEPT !.armed[c] = TRUE, !.data[c] = << >>, !.sample_readies[c] = 0]

\* PulseCounter.stop(): disarms the channel, started or not; the buffer stays.
channel_stop(m, c) == [m EXCEPT !.armed[c] = FALSE]

\* PulseTimeGenerator.start(samples, high_time, low_time, initial_delay):
\* a new train of `samples` pulses.  The times only shape the pulses; a
\* rejected time is a start that raises (the fault Timer).
timer_start(m, samples) ==
    [m EXCEPT !.timer_done = FALSE, !.timer_left = samples]

\* PulseTimeGenerator.stop(): halts the train; done reads true afterwards.
timer_stop(m) == [m EXCEPT !.timer_done = TRUE, !.timer_left = 0]

\* ------------------------------------------------- CountingApp, as operators

\* Variant of started_reset: the names of earlier runs are kept.
started_kept == channels_started

\* start_channels, line 50: the list of started names is emptied first.
started_reset == << >>

\* Variant of start_appends: every started channel's name is collected.
start_appends_always(c) == TRUE

\* start_channels, line 53: the name is collected when the channel is enabled.
start_appends(c) == enabled[c]

\* Variant of start_channels_loop: when a start raises, the channels started
\* by this call are stopped again before the error leaves.
RECURSIVE start_channels_loop_rollback(_, _, _, _)
start_channels_loop_rollback(i, m, samples, fail) ==
    IF i > Len(ChannelOrder) THEN m
    ELSE LET c == ChannelOrder[i]
             m1 == Called(m, "start", c)
         IN  IF c = fail
             THEN Raise([m1 EXCEPT !.armed = [n \in Names |-> FALSE],
                                   !.calls = @ \o [k \in 1..(i - 1) |->
                                                     <<"stop", ChannelOrder[k]>>]],
                        "ResourceError")
             ELSE LET m2 == channel_start(m1, c, samples)
                      m3 == IF start_appends(c)
                            THEN [m2 EXCEPT !.started = Append(@, c)]
                            ELSE m2
                  IN  start_channels_loop_rollback(i + 1, m3, samples, fail)

\* Variant of start_channels_loop: the name is collected before the start.
RECURSIVE start_channels_loop_append_first(_, _, _, _)
start_channels_loop_append_first(i, m, samples, fail) ==
    IF i > Len(ChannelOrder) THEN m
    ELSE LET c == ChannelOrder[i]
             m1 == IF start_appends(c)
                   THEN [m EXCEPT !.started = Append(@, c)]
                   ELSE m
             m2 == Called(m1, "start", c)
         IN  IF c = fail THEN Raise(m2, "ResourceError")
             ELSE start_channels_loop_append_first(
                      i + 1, channel_start(m2, c, samples), samples, fail)

\* start_channels, lines 51-54: the loop from position i of the dictionary.
RECURSIVE start_channels_loop(_, _, _, _)
start_channels_loop(i, m, samples, fail) ==
    IF i > Len(ChannelOrder) THEN m
    ELSE LET c == ChannelOrder[i]
             m1 == Called(m, "start", c)
         IN  IF c = fail THEN Raise(m1, "ResourceError")
             ELSE LET m2 == channel_start(m1, c, samples)
                      m3 == IF start_appends(c)
                            THEN [m2 EXCEPT !.started = Append(@, c)]
                            ELSE m2
                  IN  start_channels_loop(i + 1, m3, samples, fail)

\* start_channels(samples), lines 48-54.
start_channels(m, samples, fail) ==
    start_channels_loop(1, [m EXCEPT !.started = started_reset], samples, fail)

\* start_timer(samples, high_time, low_time, initial_delay), lines 56-58.
start_timer(m, samples, fail) ==
    LET m1 == Called(m, "start", Timer)
    IN  IF fail = Timer THEN Raise(m1, "ResourceError")
        ELSE timer_start(m1, samples)

\* Variant of start_all: the generator is started before the channels.
start_all_timer_first(m, samples, fail) ==
    LET m1 == start_timer(m, samples, fail)
    IN  IF m1.raised # "none" THEN m1
        ELSE start_channels(m1, samples, fail)

\* start_all, lines 71-72: an exception of start_channels leaves start_all.
start_all(m, samples, fail) ==
    LET m1 == start_channels(m, samples, fail)
    IN  IF m1.raised # "none" THEN m1
        ELSE start_timer(m1, samples, fail)

\* Variant of stop_targets: only the started channels are stopped.
stop_started_only == channels_started

\* stop, line 77: the channels stop() walks, self._channels.values().
stop_targets == ChannelOrder

\* Variant of stop_loop: stopping a channel that is not armed is an error.
RECURSIVE stop_loop_strict(_, _, _)
stop_loop_strict(i, m, fail) ==
    IF i > Len(stop_targets) THEN m
    ELSE LET c == stop_targets[i]
             m1 == Called(m, "stop", c)
         IN  IF c = fail \/ ~m.armed[c] THEN Raise(m1, "ResourceError")
             ELSE stop_loop_strict(i + 1, channel_stop(m1, c), fail)

\* stop, lines 77-78: the loop from position i of stop_targets.
RECURSIVE stop_loop(_, _, _)
stop_loop(i, m, fail) ==
    IF i > Len(stop_targets) THEN m
    ELSE LET c == stop_targets[i]
             m1 == Called(m, "stop", c)
         IN  IF c = fail THEN Raise(m1, "ResourceError")
             ELSE stop_loop(i + 1, channel_stop(m1, c), fail)

\* Variant of stop: a stop that returned forgets the started names.
stop_forgets(m, fail) ==
    LET m1 == Called(m, "stop", Timer)
    IN  IF fail = Timer THEN Raise(m1, "ResourceError")
        ELSE [stop_loop(1, timer_stop(m1), fail) EXCEPT !.started = << >>]

\* stop(), lines 74-78: the generator first, then the channels.
stop(m, fail) ==
    LET m1 == Called(m, "stop", Timer)
    IN  IF fail = Timer THEN Raise(m1, "ResourceError")
        ELSE stop_loop(1, timer_stop(m1), fail)

\* The log of the step just taken.
Log(op, cs, err, res) ==
    /\ lastOp' = op
    /\ calls' = cs
    /\ raised' = err
    /\ result' = res
    /\ repeated' = (lastOp = op /\ raised = "none" /\ pc = "idle")

\* A control operation's outcome becomes the next state.
Commit(m, op) ==
    /\ armed' = m.armed
    /\ data' = m.data
    /\ sample_readies' = m.sample_readies
    /\ timer_done' = m.timer_done
    /\ timer_left' = m.timer_left
    /\ channels_started' = m.started
    /\ Log(op, m.calls, m.raised, "None")

\* get_all_data, line 91: self._channels_started is a list and `name` a
\* string, so self._channels_started[name] raises TypeError.
list_index_ok(key) == key \notin Names

\* get_all_data(), lines 89-92: the dictionary built so far, from position i.
RECURSIVE get_all_data_loop(_, _)
get_all_data_loop(i, d) ==
    IF i > Len(channels_started) THEN [value |-> d, raised |-> "none"]
    ELSE LET name == channels_started[i]
         IN  IF ~list_index_ok(name)
             THEN [value |-> "None", raised |-> "TypeError"]
             ELSE get_all_data_loop(i + 1,
                      [n \in DOMAIN d \cup {name} |->
                          IF n = name THEN data[name] ELSE d[n]])

get_all_data == get_all_data_loop(1, << >>)

\* Variant of names_or_all: an empty list names no channel.
names_as_given(names) == names

\* set_channels_enabled, lines 125-126: an empty list means every channel.
names_or_all(names) == IF Len(names) = 0 THEN ChannelOrder ELSE names

\* set_channels_enabled, lines 128-129: self._channels[name] raises KeyError
\* at the first unconfigured name; the names before it are already written.
RECURSIVE set_enabled_loop(_, _, _, _)
set_enabled_loop(i, en, names, value) ==
    IF i > Len(names) THEN [enabled |-> en, raised |-> "none"]
    ELSE IF names[i] \notin Names THEN [enabled |-> en, raised |-> "KeyError"]
    ELSE set_enabled_loop(i + 1, [en EXCEPT ![names[i]] = value], names, value)

set_channels_enabled(names, value) ==
    set_enabled_loop(1, enabled, names_or_all(names), value)

\* Variant of readies_names: every configured channel is read.
readies_all_names == ChannelOrder

\* get_samples_readies, line 145: the names whose channels are read.
readies_names == channels_started

\* Variant of min_or_zero: the largest count of the list.
max_or_zero(readies) ==
    IF Len(readies) # 0
    THEN CHOOSE m \in Range(readies) : \A x \in Range(readies) : m >= x
    ELSE 0

\* get_samples_readies, lines 147-150: the minimum of the list, 0 when empty.
min_or_zero(readies) == IF Len(readies) # 0 THEN SeqMin(readies) ELSE 0

\* Variant of get_names: the names of the enabled channels only.
get_names_enabled == SelectSeq(ChannelOrder, LAMBDA c : enabled[c])

\* get_names(), lines 94-99: list(self._channels.keys()).
get_names == ChannelOrder

\* get_channels_enabled(), lines 131-141: the flag of every channel.
get_channels_enabled == [name \in Names |-> enabled[name]]

\* Variant of is_done: done once every started channel has a sample ready.
is_done_by_data == \A c \in Range(channels_started) : sample_readies[c] > 0

\* is_done(), lines 152-153: the generator's done flag.
is_done == timer_done

\* get_channel_data, line 101: the default arguments start=0, end=-1.
DefaultStart == 0

DefaultEnd == -1

\* A slice bound k on a sequence of length n, as Python normalises it: a
\* negative bound counts from the end, and the bound is clamped to 0..n.
py_index(k, n) ==
    LET j == IF k < 0 THEN k + n ELSE k
    IN  IF j < 0 THEN 0 ELSE IF j > n THEN n ELSE j

\* Variant of py_slice: an end of -1 reaches through the last element.
py_slice_to_last(buf, start, end) ==
    LET lo == py_index(start, Len(buf))
        hi == IF end = -1 THEN Len(buf) ELSE py_index(end, Len(buf))
    IN  IF lo < hi THEN SubSeq(buf, lo + 1, hi) ELSE << >>

\* get_channel_data, line 112: data[start:end], positions counted from 0.
py_slice(buf, start, end) ==
    LET lo == py_index(start, Len(buf))
        hi == py_index(end, Len(buf))
    IN  IF lo < hi THEN SubSeq(buf, lo + 1, hi) ELSE << >>

\* get_channel_data(name, start, end), lines 101-113: self._channels[name]
\* raises KeyError for an unconfigured name.
get_channel_data(name, start, end) ==
    IF name \notin Names THEN [value |-> "None", raised |-> "KeyError"]
    ELSE [value |-> py_slice(data[name], start, end), raised |-> "none"]

\* ------------------------------------------------------------------- Init

Init ==
    /\ enabled \in [Names -> BOOLEAN]
    /\ armed = [c \in Names |-> FALSE]
    /\ data = [c \in Names |-> << >>]
    /\ sample_readies = [c \in Names |-> 0]
    /\ timer_done \in BOOLEAN
    /\ timer_left = 0
    /\ channels_started = << >>
    /\ pc = "idle"
    /\ idx = 0
    /\ samples_readies = << >>
    /\ lastOp = "init"
    /\ calls = << >>
    /\ raised = "none"
    /\ result = "None"
    /\ repeated = FALSE
    /\ promised = 0
    /\ at_call = NoReadies
    /\ written = enabled

\* ------------------------------------------------------ control operations

StartChannels(samples, fail) ==
    /\ pc = "idle"
    /\ Commit(start_channels(Machine, samples, fail), "start_channels")
    /\ promised' = 0
    /\ UNCHANGED <<flagVars, readVars>>

StartTimer(samples, fail) ==
    /\ pc = "idle"
    /\ Commit(start_timer(Machine, samples, fail), "start_timer")
    /\ UNCHANGED <<flagVars, readVars, promised>>

StartAll(samples, fail) ==
    /\ pc = "idle"
    /\ Commit(start_all(Machine, samples, fail), "start_all")
    /\ promised' = 0
    /\ UNCHANGED <<flagVars, readVars>>

Stop(fail) ==
    /\ pc = "idle"
    /\ Commit(stop(Machine, fail), "stop")
    /\ UNCHANGED <<flagVars, readVars, promised>>

GetAllData ==
    /\ pc = "idle"
    /\ Log("get_all_data", << >>, get_all_data.raised, get_all_data.value)
    /\ UNCHANGED <<flagVars, chanVars, timerVars, channels_started, readVars,
                   promised>>

\* The record of the last write per channel: a call whose names are all
\* configured covers every channel when the list is empty and the listed
\* channels otherwise; after any other call the record is read back.
LastWritten(names, value) ==
    IF \A i \in 1..Len(names) : names[i] \in Names
    THEN [c \in Names |->
             IF Len(names) = 0 \/ c \in Range(names) THEN value
             ELSE written[c]]
    ELSE enabled'

SetChannelsEnabled(names, value) ==
    /\ pc = "idle"
    /\ enabled' = set_channels_enabled(names, value).enabled
    /\ written' = LastWritten(names, value)
    /\ Log("set_channels_enabled", << >>,
           set_channels_enabled(names, value).raised, "None")
    /\ UNCHANGED <<chanVars, timerVars, channels_started, readVars, promised>>

\* A call that only reads: nothing but the log changes.
ReadOnly(op, err, res) ==
    /\ pc = "idle"
    /\ Log(op, << >>, err, res)
    /\ UNCHANGED <<flagVars, chanVars, timerVars, channels_started, readVars,
                   promised>>

GetNames == ReadOnly("get_names", "none", get_names)

GetChannelsEnabled ==
    ReadOnly("get_channels_enabled", "none", get_channels_enabled)

IsDone == ReadOnly("is_done", "none", is_done)

\* The log keeps the access self._channels[name].data[start:end] the call
\* asked for.
GetChannelData(name, start, end) ==
    /\ pc = "idle"
    /\ Log("get_channel_data", <<<<"data", name, start, end>>>>,
           get_channel_data(name, start, end).raised,
           get_channel_data(name, start, end).value)
    /\ UNCHANGED <<flagVars, chanVars, timerVars, channels_started, readVars,
                   promised>>

\* get_samples_readies, line 144: the call begins with an empty list.
ReadiesBegin ==
    /\ pc = "idle"
    /\ pc' = "readies"
    /\ idx' = 1
    /\ samples_readies' = << >>
    /\ at_call' = sample_readies
    /\ Log("get_samples_readies", << >>, "none", "None")
    /\ UNCHANGED <<flagVars, chanVars, timerVars, channels_started, promised>>

\* get_samples_readies, lines 145-146: one channel's sample_readies is read.
ReadiesStep ==
    /\ pc = "readies"
    /\ idx <= Len(readies_names)
    /\ samples_readies' =
           Append(samples_readies, sample_readies[readies_names[idx]])
    /\ idx' = idx + 1
    /\ UNCHANGED <<flagVars, chanVars, timerVars, channels_started, pc, lastOp,
                   calls, raised, result, repeated, promised, at_call>>

\* get_samples_readies, lines 147-150: the call returns.
ReadiesReturn ==
    /\ pc = "readies"
    /\ idx > Len(readies_names)
    /\ Log("get_samples_readies", << >>, "none", min_or_zero(samples_readies))
    /\ promised' = IF result' > promised THEN result' ELSE promised
    /\ pc' = "idle"
    /\ idx' = 0
    /\ samples_readies' = << >>
    /\ at_call' = NoReadies
    /\ UNCHANGED <<flagVars, chanVars, timerVars, channels_started>>

\* ---------------------------------------------------------------- hardware

\* A hardware step is no control operation: the log is blank after it.
HardwareStep == Log("hardware", << >>, "none", "None")

\* The driver appends one acquired value to an armed channel's buffer.
Sample(c, v) ==
    /\ armed[c]
    /\ Len(data[c]) < MaxSamples
    /\ data' = [data EXCEPT ![c] = Append(@, v)]
    /\ HardwareStep
    /\ UNCHANGED <<flagVars, armed, sample_readies, timerVars,
                   channels_started, readVars, promised>>

\* The driver reports one more sample of the buffer as ready.
Ready(c) ==
    /\ armed[c]
    /\ sample_readies[c] < Len(data[c])
    /\ sample_readies' = [sample_readies EXCEPT ![c] = @ + 1]
    /\ HardwareStep
    /\ UNCHANGED <<flagVars, armed, data, timerVars, channels_started,
                   readVars, promised>>

\* The generator emits one gate pulse; after the last one it is done.
Pulse ==
    /\ ~timer_done
    /\ timer_left > 0
    /\ timer_left' = timer_left - 1
    /\ timer_done' = (timer_left' = 0)
    /\ HardwareStep
    /\ UNCHANGED <<flagVars, chanVars, channels_started, readVars, promised>>

\* ------------------------------------------------------------------- Next

SampleCounts == 1..MaxCount

\* The `names` lists handed to set_channels_enabled.
NameLists == SeqsUpTo(Names \cup {Unconfigured}, Len(ChannelOrder))

DoStartChannels ==
    \E n \in SampleCounts, f \in Names \cup {NoFail} : StartChannels(n, f)

DoStartTimer ==
    \E n \in SampleCounts, f \in {Timer, NoFail} : StartTimer(n, f)

DoStartAll == \E n \in SampleCounts, f \in Faults : StartAll(n, f)

DoStop == \E f \in Faults : Stop(f)

DoSetChannelsEnabled ==
    \E names \in NameLists, value \in BOOLEAN : SetChannelsEnabled(names, value)

DoSample == \E c \in Names, v \in SampleValues : Sample(c, v)

DoReady == \E c \in Names : Ready(c)

Next ==
    \/ DoStartChannels
    \/ DoStartTimer
    \/ DoStartAll
    \/ DoStop
    \/ GetAllData
    \/ GetNames
    \/ GetChannelsEnabled
    \/ IsDone
    \/ DoSetChannelsEnabled
    \/ ReadiesBegin
    \/ ReadiesStep
    \/ ReadiesReturn
    \/ DoSample
    \/ DoReady
    \/ Pulse

Spec == Init /\ [][Next]_vars

\* -------------------------------------------- get_channel_data on buffers

\* The buffer of the documented examples, and the buffers it grew through.
ExampleBuffer == <<1, 2, 3, 4, 5>>

Buffers == {SubSeq(ExampleBuffer, 1, k) : k \in 0..Len(ExampleBuffer)}

Indices == (0 - MaxIndex)..MaxIndex

\* The coordinator after a run: every channel sampled on the same gate
\* pulses, so the buffers have one length.
InitSlice ==
    /\ enabled = [c \in Names |-> TRUE]
    /\ armed = [c \in Names |-> FALSE]
    /\ \E buf \in Buffers : data = [c \in Names |-> buf]
    /\ sample_readies = [c \in Names |-> Len(data[c])]
    /\ timer_done = TRUE
    /\ timer_left = 0
    /\ channels_started = << >>
    /\ pc = "idle"
    /\ idx = 0
    /\ samples_readies = << >>
    /\ lastOp = "init"
    /\ calls = << >>
    /\ raised = "none"
    /\ result = "None"
    /\ repeated = FALSE
    /\ promised = 0
    /\ at_call = NoReadies
    /\ written = enabled

DoGetChannelData ==
    \E name \in Names \cup {Unconfigured}, start \in Indices, end \in Indices :
        GetChannelData(name, start, end)

DoGetChannelDataDefault ==
    \E name \in Names \cup {Unconfigured} :
        GetChannelData(name, DefaultStart, DefaultEnd)

NextSlice ==
    \/ DoGetChannelData
    \/ DoGetChannelDataDefault

SpecSlice == InitSlice /\ [][NextSlice]_vars

\* ----------------------------------------------------------------- claims

StartCall(c) == <<"start", c>>

StopCall(c) == <<"stop", c>>

\* The channel starts of a whole start_channels loop, in dictionary order.
AllChannelStarts == [i \in 1..Len(ChannelOrder) |-> StartCall(ChannelOrder[i])]

\* The step just taken ran start_channels, alone or inside start_all.
RanStartChannels == lastOp \in {"start_channels", "start_all"}

\* The start_channels of the step just taken returned without raising.
StartChannelsReturned ==
    \/ lastOp = "start_channels" /\ raised = "none"
    \/ lastOp = "start_all" /\ StartCall(Timer) \in Range(calls)

\* The start_channels of the step just taken raised at a channel's start.
StartChannelsFailed ==
    /\ RanStartChannels
    /\ raised # "none"
    /\ calls[Len(calls)][2] \in Names

\* C1: start_all starts the generator only after every channel's start has
\* returned, as its last call; when a channel's start raises, start_all makes
\* no call of the generator's start.
C1_ChannelsBeforeTimer ==
    lastOp = "start_all" =>
        /\ StartCall(Timer) \in Range(calls) =>
               /\ calls = Append(AllChannelStarts, StartCall(Timer))
               /\ \A c \in Names : armed[c]
        /\ StartChannelsFailed => StartCall(Timer) \notin Range(calls)
        /\ raised = "none" => StartCall(Timer) \in Range(calls)

\* C1 witness: start_all failed at the second channel after starting the first.
C1_Witness ==
    /\ lastOp = "start_all"
    /\ raised = "ResourceError"
    /\ calls = <<StartCall(ChannelOrder[1]), StartCall(ChannelOrder[2])>>
    /\ armed[ChannelOrder[1]]

\* C2: start_channels invokes start only on channels that are enabled, and
\* makes no call on a disabled channel.
C2_OnlyEnabledStarted ==
    RanStartChannels =>
        \A i \in 1..Len(calls) : calls[i][2] \in Names => enabled[calls[i][2]]

\* C3: the started names are configured names, and after a start_channels that
\* returned a name is among them exactly when the channel's start was invoked
\* by that call and the channel is enabled.
C3_StartedIffStartedAndEnabled ==
    /\ Range(channels_started) \subseteq Names
    /\ StartChannelsReturned =>
           \A c \in Names :
               c \in Range(channels_started)
                   <=> (StartCall(c) \in Range(calls) /\ enabled[c])

\* C3 witness: a start_channels that returned with one channel enabled and
\* collected and another one disabled and left out.
C3_Witness ==
    /\ lastOp = "start_channels"
    /\ raised = "none"
    /\ \E c \in Names : enabled[c] /\ c \in Range(channels_started)
    /\ \E c \in Names : ~enabled[c] /\ c \notin Range(channels_started)

\* C4: get_all_data returns without error a mapping whose keys are exactly the
\* started names, each mapped to its channel's buffer.
C4_AllDataOfStarted ==
    lastOp = "get_all_data" =>
        /\ raised = "none"
        /\ DOMAIN result = Range(channels_started)
        /\ \A n \in Range(channels_started) : result[n] = data[n]

\* C5: a count that get_samples_readies returned in this run is held by the
\* buffer of every started channel, at the return and in every later state
\* up to the next start_channels, however the hardware interleaves.
C5_ReadyCountIsSafe ==
    /\ \A c \in Range(channels_started) : Len(data[c]) >= promised
    /\ (pc = "idle" /\ lastOp = "get_samples_readies") =>
           /\ promised >= result
           /\ \A c \in Range(channels_started) : Len(data[c]) >= result

\* C5 witness: a positive count was returned over two started channels, and
\* the run has since been stopped.
C5_Witness ==
    /\ promised > 0
    /\ Len(channels_started) = Len(ChannelOrder)
    /\ lastOp = "stop"

\* The least readiness count among the started channels, 0 when none is.
StartedMin(readies) ==
    IF channels_started = << >> THEN 0
    ELSE SetMin({readies[c] : c \in Range(channels_started)})

\* C6: get_samples_readies returns, without error, the minimum readiness
\* count over exactly the started channels: a value between that minimum at
\* the call and that minimum at the return (the same when no sample became
\* ready meanwhile), and 0 when no channel is started or none has a sample.
C6_MinOverStarted ==
    [][(pc = "readies" /\ pc' = "idle") =>
          /\ raised' = "none"
          /\ StartedMin(at_call) <= result'
          /\ result' <= StartedMin(sample_readies)
          /\ channels_started = << >> => result' = 0
          /\ (\A c \in Range(channels_started) : sample_readies[c] = 0)
                 => result' = 0]_vars

\* C6 witness: the call returned a positive minimum over two started channels.
C6_Witness ==
    /\ pc = "idle"
    /\ lastOp = "get_samples_readies"
    /\ Len(channels_started) = Len(ChannelOrder)
    /\ result > 0

\* The channel stops of a whole stop loop, in dictionary order.
AllChannelStops == [i \in 1..Len(ChannelOrder) |-> StopCall(ChannelOrder[i])]

\* C7: stop calls the generator's stop first and only channel stops after it;
\* when no stop call fails on the hardware it stops every configured channel,
\* enabled or not, started or not, and does not raise.
C7_TimerThenEveryChannel ==
    [][\A f \in Faults : (lastOp' = "stop" /\ Stop(f)) =>
          /\ calls'[1] = StopCall(Timer)
          /\ \A i \in 2..Len(calls') : calls'[i][2] \in Names
          /\ f = NoFail =>
                 /\ raised' = "none"
                 /\ calls' = <<StopCall(Timer)>> \o AllChannelStops
                 /\ \A c \in Names : ~armed'[c]]_vars

\* C7 witness: stop returned after stopping a disabled channel that is not
\* among the started ones.
C7_Witness ==
    /\ lastOp = "stop"
    /\ raised = "none"
    /\ channels_started # << >>
    /\ \E c \in Names :
           /\ ~enabled[c]
           /\ c \notin Range(channels_started)
           /\ StopCall(c) \in Range(calls)

\* C8: whether stop returns or fails, it has invoked stop on every configured
\* channel, and a channel is left armed only if its own stop failed.
C8_StopIsBestEffort ==
    lastOp = "stop" =>
        \A c \in Names :
            /\ StopCall(c) \in Range(calls)
            /\ armed[c] => (raised # "none" /\ calls[Len(calls)] = StopCall(c))

\* What a caller can observe of the coordinator, its channels and generator.
Observable == <<channels_started, enabled, timer_done, armed>>

\* C9: a stop whose calls do not fail on the hardware raises no error, and
\* right after a stop that returned it changes nothing observable.
C9_StopIdempotent ==
    [][(lastOp' = "stop" /\ Stop(NoFail)) =>
          /\ raised' = "none"
          /\ (lastOp = "stop" /\ raised = "none") => Observable' = Observable]_vars

\* C9 witness: stop returned right after a stop that returned.
C9_Witness ==
    /\ lastOp = "stop"
    /\ repeated
    /\ raised = "none"
    /\ timer_done
    /\ \A c \in Names : ~armed[c]

\* The enabled channels, in dictionary order.
EnabledInOrder == SelectSeq(ChannelOrder, LAMBDA c : enabled[c])

\* C10, in a state: after a start_channels that returned, the started names
\* are the channels enabled at that call, whatever earlier runs started; the
\* keys get_all_data returns are started names.
C10_State ==
    /\ StartChannelsReturned => channels_started = EnabledInOrder
    /\ (lastOp = "get_all_data" /\ raised = "none") =>
           DOMAIN result \subseteq Range(channels_started)

\* C10, in a step: get_samples_readies reads started channels only.
C10_Read ==
    (pc = "readies" /\ samples_readies' # samples_readies /\ pc' = "readies") =>
        \E c \in Range(channels_started) :
            samples_readies' = Append(samples_readies, sample_readies[c])

\* C10: the started names are not cumulative across runs.
C10_NotCumulative == []C10_State /\ [][C10_Read]_vars

\* C10 witness: a start_channels returned with a disabled channel that holds
\* no place among the started names while another one does.
C10_Witness ==
    /\ lastOp = "start_channels"
    /\ raised = "none"
    /\ repeated = FALSE
    /\ ~enabled[ChannelOrder[1]]
    /\ channels_started = <<ChannelOrder[2]>>

\* C11, in a state: a start_channels that failed at a channel surfaced the
\* error, made no stop call, and left armed every channel it had started.
C11_State ==
    StartChannelsFailed =>
        /\ raised = "ResourceError"
        /\ \A i \in 1..Len(calls) : calls[i][1] = "start"
        /\ \A i \in 1..(Len(calls) - 1) : armed[calls[i][2]]

\* C11, in a step: the stop that follows the failed start, its own hardware
\* calls not failing, leaves every channel disarmed and the generator done.
C11_Stop ==
    (StartChannelsFailed /\ lastOp' = "stop" /\ Stop(NoFail)) =>
        /\ raised' = "none"
        /\ \A c \in Names : ~armed'[c]
        /\ timer_done'

\* C11: no rollback on a failed channel start, and stop cleans up.
C11_NoRollback == []C11_State /\ [][C11_Stop]_vars

\* C11 witness: start_channels failed at the second channel, and the first
\* channel, started by the call, is armed and among the started names.
C11_Witness ==
    /\ lastOp = "start_channels"
    /\ raised = "ResourceError"
    /\ calls = <<StartCall(ChannelOrder[1]), StartCall(ChannelOrder[2])>>
    /\ armed[ChannelOrder[1]]
    /\ channels_started = <<ChannelOrder[1]>>

\* C12: set_channels_enabled with an unconfigured name in its list fails with
\* the not-found error (KeyError) and leaves every channel's flag as it was.
C12_FailedWriteChangesNothing ==
    [][\A names \in NameLists, value \in BOOLEAN :
          (/\ lastOp' = "set_channels_enabled"
           /\ SetChannelsEnabled(names, value)
           /\ \E i \in 1..Len(names) : names[i] \notin Names) =>
              /\ raised' = "KeyError"
              /\ enabled' = enabled]_vars

\* C13: get_channels_enabled returns, for every configured channel, the value
\* of the last set_channels_enabled call (all names configured) that covered
\* it, an empty list covering every channel, or the initial flag when no call
\* covered it; the flags themselves always agree with that record.
C13_LastWritePerChannel ==
    /\ enabled = written
    /\ lastOp = "get_channels_enabled" =>
           /\ raised = "none"
           /\ DOMAIN result = Names
           /\ \A c \in Names : result[c] = written[c]

\* C13 witness: get_channels_enabled returned different flags for the two
\* channels.
C13_Witness ==
    /\ lastOp = "get_channels_enabled"
    /\ result[ChannelOrder[1]] = TRUE
    /\ result[ChannelOrder[2]] = FALSE

\* The frame of set_channels_enabled: it calls no start and no stop and
\* changes neither a channel, nor the generator, nor the started names.
C14_Frame ==
    lastOp' = "set_channels_enabled" =>
        /\ calls' = << >>
        /\ UNCHANGED <<chanVars, timerVars, channels_started>>

\* A channel disabled after its start is still served by get_all_data.
C14_StillServed ==
    lastOp' = "get_all_data" =>
        \A c \in Range(channels_started) :
            (armed[c] /\ ~enabled[c]) =>
                /\ raised' = "none"
                /\ c \in DOMAIN result'
                /\ result'[c] = data[c]

\* C14: set_channels_enabled only changes the stored flags, so a channel
\* disabled after start_channels stays armed and among the started names, and
\* get_all_data keeps returning its buffer.
C14_OnlyFlagsChange == [][C14_Frame /\ C14_StillServed]_vars

\* The frame part of C14 alone.
FrameOfSetChannelsEnabled == [][C14_Frame]_vars

\* is_done returns the generator's done flag, whatever the buffers hold, and
\* the flag is false right after a start_all that returned.
C15_IsDoneIsFlag ==
    /\ lastOp = "is_done" => (raised = "none" /\ result = timer_done)
    /\ (lastOp = "start_all" /\ raised = "none") =>
           (~timer_done /\ timer_left > 0)

\* A running pulse train becomes done only by emitting its last pulse.
C15_DoneByLastPulse ==
    (~timer_done /\ timer_left > 0 /\ timer_done') =>
        (lastOp' = "hardware" /\ timer_left = 1 /\ timer_left' = 0)

\* A running pulse train becomes done by emitting its last pulse or by stop.
C15_DoneByLastPulseOrStop ==
    (~timer_done /\ timer_left > 0 /\ timer_done') =>
        \/ lastOp' = "hardware" /\ timer_left = 1 /\ timer_left' = 0
        \/ lastOp' = "stop"

\* Once done, the generator stays done until it is started again.
C15_DoneUntilStart ==
    (timer_done /\ ~timer_done') => lastOp' \in {"start_timer", "start_all"}

\* C15: after start_all, is_done is false until the generator has emitted
\* the configured number of pulses, then true until the next start; is_done
\* always equals the generator's done flag.
C15_DoneAfterAllPulses ==
    /\ []C15_IsDoneIsFlag
    /\ [][C15_DoneByLastPulse /\ C15_DoneUntilStart]_vars

\* C15, amended: after start_all, is_done is false until the generator has
\* emitted the configured number of pulses or stop() is called, then true
\* until the next start; is_done always equals the generator's done flag.
C15_DoneAfterAllPulsesOrStop ==
    /\ []C15_IsDoneIsFlag
    /\ [][C15_DoneByLastPulseOrStop /\ C15_DoneUntilStart]_vars

\* C15 witness: is_done returned false in a run of which one pulse is emitted
\* and one is still to come, a started channel already holding a sample.
C15_Witness ==
    /\ lastOp = "is_done"
    /\ result = FALSE
    /\ timer_left = 1
    /\ \E c \in Range(channels_started) : sample_readies[c] > 0

\* The position a start or end index denotes in a buffer of length n,
\* counted from 0: a negative index counts from the end.
Position(k, n) == IF k < 0 THEN n + k ELSE k

\* The elements of buf at the positions from start (inclusive) to end
\* (exclusive), in order.
ElementsBetween(buf, start, end) ==
    LET n == Len(buf)
        keep == {i \in 0..(n - 1) :
                    Position(start, n) <= i /\ i < Position(end, n)}
    IN  IF keep = {} THEN << >>
        ELSE [j \in 1..Cardinality(keep) |-> buf[SetMin(keep) + j]]

\* C16: get_channel_data returns the elements of the named channel's buffer
\* from start (inclusive) to end (exclusive), negative indices counted from
\* the end, so the default end of -1 leaves out the last element; an
\* unconfigured name fails with the not-found error (KeyError).
C16_SliceOfBuffer ==
    lastOp = "get_channel_data" =>
        LET name == calls[1][2]
            start == calls[1][3]
            end == calls[1][4]
        IN  IF name \notin Names THEN raised = "KeyError"
            ELSE /\ raised = "none"
                 /\ result = ElementsBetween(data[name], start, end)
                 /\ (data[name] = ExampleBuffer /\ end = DefaultEnd) =>
                        /\ start = DefaultStart => result = <<1, 2, 3, 4>>
                        /\ start = 2 => result = <<3, 4>>

\* C16 witness: get_channel_data(name, 2, -1) on the buffer <<1, 2, 3, 4, 5>>
\* returned <<3, 4>>.
C16_Witness ==
    /\ lastOp = "get_channel_data"
    /\ raised = "none"
    /\ data[ChannelOrder[1]] = ExampleBuffer
    /\ calls = <<<<"data", ChannelOrder[1], 2, DefaultEnd>>>>
    /\ result = <<3, 4>>

\* C17: whatever operations came before, get_names returns, without error,
\* exactly the configured channel names in configuration order, whatever the
\* enabled flags and the started names are.
C17_NamesAsConfigured ==
    lastOp = "get_names" => (raised = "none" /\ result = ChannelOrder)

\* C17 witness: get_names returned every configured name while one channel
\* is disabled and only the other one is among the started names.
C17_Witness ==
    /\ lastOp = "get_names"
    /\ result = ChannelOrder
    /\ \E c \in Names : ~enabled[c]
    /\ Len(channels_started) = 1

\* A stop, failed or not, changes neither the started names nor a flag, and
\* so neither what get_all_data does nor the minimum get_samples_readies
\* ranges over.
C18_StopFrame ==
    lastOp' = "stop" =>
        /\ channels_started' = channels_started
        /\ enabled' = enabled
        /\ get_all_data' = get_all_data
        /\ StartedMin(sample_readies)' = StartedMin(sample_readies)

\* The started names change only in a step that ran start_channels.
C18_OnlyStartChannels ==
    channels_started' # channels_started =>
        lastOp' \in {"start_channels", "start_all"}

\* With every channel disarmed by a stop, get_samples_readies still returns
\* the minimum over the started names, and get_all_data's keys are started
\* names.
C18_ReadsAfterStop ==
    (pc = "idle" /\ \A c \in Names : ~armed[c]) =>
        /\ lastOp = "get_samples_readies" =>
               result = StartedMin(sample_readies)
        /\ (lastOp = "get_all_data" /\ raised = "none") =>
               DOMAIN result = Range(channels_started)

\* C18: stop leaves the started names and every enabled flag unchanged: after
\* it get_samples_readies and get_all_data still range over the channels of
\* the last start_channels, and only start_channels changes the started
\* names.
C18_StopKeepsStarted ==
    /\ []C18_ReadsAfterStop
    /\ [][C18_StopFrame /\ C18_OnlyStartChannels]_vars

\* C18 witness: after a stop disarmed every channel, get_samples_readies
\* returned the ready sample of the channels started before it.
C18_Witness ==
    /\ lastOp = "get_samples_readies"
    /\ pc = "idle"
    /\ \A c \in Names : ~armed[c]
    /\ channels_started # << >>
    /\ result = 1

\* The channel at whose start the start_channels just run raised, and its
\* place in the configuration.
FailedChannel == calls[Len(calls)][2]

FailedAt == CHOOSE i \in 1..Len(ChannelOrder) : ChannelOrder[i] = FailedChannel

\* C19: after a start_channels that failed at a channel, the started names
\* are exactly the enabled channels before that channel in configuration
\* order, whatever the previous run started: never the failing channel, nor
\* one after it.
C19_StartedBeforeFailure ==
    StartChannelsFailed =>
        /\ channels_started =
               SelectSeq(SubSeq(ChannelOrder, 1, FailedAt - 1),
                         LAMBDA c : enabled[c])
        /\ \A i \in FailedAt..Len(ChannelOrder) :
               ChannelOrder[i] \notin Range(channels_started)

\* C19 witness: start_channels failed at the second channel, itself enabled,
\* and the started names hold the first channel alone.
C19_Witness ==
    /\ StartChannelsFailed
    /\ FailedChannel = ChannelOrder[2]
    /\ enabled[ChannelOrder[2]]
    /\ channels_started = <<ChannelOrder[1]>>

====
